---- MODULE Spec2Model ----
(***************************************************************************)
(* fsmall: the Mealy and Moore stepping engines of src/src/lib.rs.         *)
(*                                                                         *)
(* A machine is one u8 state field plus two borrowed static tables.  The   *)
(* tables are fixed at construction and never written; the model draws     *)
(* them at Init from every table over the sampled values, up to the length *)
(* bounds.  Every public method is one action.  The variables op, arg, pre *)
(* and ret record the last call, its argument, the state it started from   *)
(* and what it returned, so that the contracts of the methods are state    *)
(* predicates.  The variable peer is a second machine over the same        *)
(* transition table; it is absent in Spec and present in PairSpec (two     *)
(* instances called in any order) and LockstepSpec (a Mealy and a Moore    *)
(* machine fed the same inputs).                                           *)
(***************************************************************************)
EXTENDS Integers, Sequences, FiniteSets

VARIABLES kind, transitions, outputs, state, op, arg, pre, ret, peer

vars == <<kind, transitions, outputs, state, op, arg, pre, ret, peer>>

(* ---------------------------- bounds ----------------------------------- *)

\* longest transition table
MaxTrans == 2
\* longest Mealy output table
MaxMealyOuts == 2
\* longest Moore output array
MaxMooreOuts == 2
\* longest output table of the two-machine specifications
MaxPairOuts == 1

\* largest value of the u8 state field
U8Max == 255

\* state values that appear in the tables
TableStates == {0, 1}
\* state values handed to new and reset: the table states and one value
\* that is in no table and beyond every Moore output array
StateArgs == TableStates \cup {U8Max}

Inputs == {"A", "B"}
Outputs == {"X", "Y"}

RECURSIVE SeqsUpTo(_, _)
SeqsUpTo(S, n) ==
    IF n = 0 THEN {<<>>}
    ELSE LET shorter == SeqsUpTo(S, n - 1)
         IN  shorter \cup {Append(q, x) : q \in {r \in shorter : Len(r) = n - 1}, x \in S}

TransitionTables == SeqsUpTo(TableStates \X Inputs \X TableStates, MaxTrans)
MealyOutputTables == SeqsUpTo(TableStates \X Inputs \X Outputs, MaxMealyOuts)
MooreOutputArrays == SeqsUpTo(Outputs, MaxMooreOuts)

(* ---------------------------- results ---------------------------------- *)

Ok(v) == [tag |-> "Ok", val |-> v]
Err(e) == [tag |-> "Err", val |-> e]
NoTransition == "NoTransition"
NoOutput == "NoOutput"
Unit == [tag |-> "Unit", val |-> "unit"]
StateVal(s) == [tag |-> "State", val |-> s]

\* the value of peer when there is no second machine
NoPeer == [tag |-> "NoPeer"]

(* ---------------------------- lookups ---------------------------------- *)

\* a scan that keeps the last matching entry instead of the first
RECURSIVE FindLast(_, _, _, _)
FindLast(table, s, i, k) ==
    IF k > Len(table) THEN 0
    ELSE LET later == FindLast(table, s, i, k + 1)
         IN  IF later # 0 THEN later
             ELSE IF table[k][1] = s /\ table[k][2] = i THEN k
             ELSE 0

\* a scan that compares the input only and takes an entry of any from_state
RECURSIVE FindAnyState(_, _, _, _)
FindAnyState(table, s, i, k) ==
    IF k > Len(table) THEN 0
    ELSE IF table[k][2] = i THEN k
    ELSE FindAnyState(table, s, i, k + 1)

\* iter().find(|(a, b, _)| *a == s && *b == i): index of the first entry at or
\* after k whose first two fields are (s, i); 0 when the scan runs off the end
RECURSIVE Find(_, _, _, _)
Find(table, s, i, k) ==
    IF k > Len(table) THEN 0
    ELSE IF table[k][1] = s /\ table[k][2] = i THEN k
    ELSE Find(table, s, i, k + 1)

(* ---------------------------- Mealy ------------------------------------ *)

\* a Mealy step that commits as soon as the transition is found
MealyStepOutcomeEarlyCommit(s, i) ==
    LET t == Find(transitions, s, i, 1)
    IN  IF t = 0 THEN [state |-> s, ret |-> Err(NoTransition)]
        ELSE LET next == transitions[t][3]
                 o == Find(outputs, s, i, 1)
             IN  IF o = 0 THEN [state |-> next, ret |-> Err(NoOutput)]
                 ELSE [state |-> next, ret |-> Ok(outputs[o][3])]

\* a Mealy step that falls back to state 0 when no transition matches
MealyStepOutcomeClearsOnMiss(s, i) ==
    LET t == Find(transitions, s, i, 1)
    IN  IF t = 0 THEN [state |-> 0, ret |-> Err(NoTransition)]
        ELSE LET next == transitions[t][3]
                 o == Find(outputs, s, i, 1)
             IN  IF o = 0 THEN [state |-> s, ret |-> Err(NoOutput)]
                 ELSE [state |-> next, ret |-> Ok(outputs[o][3])]

\* a Mealy step that keys the output lookup on the destination state
MealyStepOutcomeDestKeyed(s, i) ==
    LET t == Find(transitions, s, i, 1)
    IN  IF t = 0 THEN [state |-> s, ret |-> Err(NoTransition)]
        ELSE LET next == transitions[t][3]
                 o == Find(outputs, next, i, 1)
             IN  IF o = 0 THEN [state |-> s, ret |-> Err(NoOutput)]
                 ELSE [state |-> next, ret |-> Ok(outputs[o][3])]

\* a Mealy step that looks up the output before the transition
MealyStepOutcomeOutputFirst(s, i) ==
    LET o == Find(outputs, s, i, 1)
    IN  IF o = 0 THEN [state |-> s, ret |-> Err(NoOutput)]
        ELSE LET t == Find(transitions, s, i, 1)
             IN  IF t = 0 THEN [state |-> s, ret |-> Err(NoTransition)]
                 ELSE [state |-> transitions[t][3], ret |-> Ok(outputs[o][3])]

\* a Mealy step that commits the position of the matching entry instead of
\* its to_state
MealyStepOutcomeCommitsIndex(s, i) ==
    LET t == Find(transitions, s, i, 1)
    IN  IF t = 0 THEN [state |-> s, ret |-> Err(NoTransition)]
        ELSE LET o == Find(outputs, s, i, 1)
             IN  IF o = 0 THEN [state |-> s, ret |-> Err(NoOutput)]
                 ELSE [state |-> t - 1, ret |-> Ok(outputs[o][3])]

\* Mealy::step on state s and input i: the state it leaves and what it returns
MealyStepOutcome(s, i) ==
    LET t == Find(transitions, s, i, 1)
    IN  IF t = 0 THEN [state |-> s, ret |-> Err(NoTransition)]
        ELSE LET next == transitions[t][3]
                 o == Find(outputs, s, i, 1)
             IN  IF o = 0 THEN [state |-> s, ret |-> Err(NoOutput)]
                 ELSE [state |-> next, ret |-> Ok(outputs[o][3])]

MealyNew ==
    /\ kind = "Mealy"
    /\ transitions \in TransitionTables
    /\ outputs \in MealyOutputTables
    /\ state \in StateArgs
    /\ op = "new"
    /\ arg = state
    /\ pre = state
    /\ ret = Unit

MealyStep(i) ==
    /\ kind = "Mealy"
    /\ LET r == MealyStepOutcome(state, i)
       IN  /\ state' = r.state
           /\ ret' = r.ret
    /\ op' = "step"
    /\ arg' = i
    /\ pre' = state
    /\ UNCHANGED <<peer, kind, transitions, outputs>>

MealyCurrentState ==
    /\ kind = "Mealy"
    /\ ret' = StateVal(state)
    /\ op' = "current_state"
    /\ arg' = "none"
    /\ pre' = state
    /\ UNCHANGED <<peer, kind, transitions, outputs, state>>

MealyReset(s) ==
    /\ kind = "Mealy"
    /\ state' = s
    /\ ret' = Unit
    /\ op' = "reset"
    /\ arg' = s
    /\ pre' = state
    /\ UNCHANGED <<peer, kind, transitions, outputs>>

(* ---------------------------- Moore ------------------------------------ *)

\* a Moore step that falls back to state 0 when no transition matches
MooreStepOutcomeClearsOnMiss(s, i) ==
    LET t == Find(transitions, s, i, 1)
    IN  IF t = 0 THEN [state |-> 0, ret |-> Err(NoTransition)]
        ELSE LET next == transitions[t][3]
             IN  [state |-> next,
                  ret |-> IF next < Len(outputs) THEN Ok(outputs[next + 1])
                          ELSE Err(NoOutput)]

\* a Moore step that commits only when the destination has an output
MooreStepOutcomeRollback(s, i) ==
    LET t == Find(transitions, s, i, 1)
    IN  IF t = 0 THEN [state |-> s, ret |-> Err(NoTransition)]
        ELSE LET next == transitions[t][3]
             IN  IF next < Len(outputs)
                 THEN [state |-> next, ret |-> Ok(outputs[next + 1])]
                 ELSE [state |-> s, ret |-> Err(NoOutput)]

\* a Moore step that reads the output of the state it leaves
MooreStepOutcomeSourceOutput(s, i) ==
    LET t == Find(transitions, s, i, 1)
    IN  IF t = 0 THEN [state |-> s, ret |-> Err(NoTransition)]
        ELSE LET next == transitions[t][3]
             IN  [state |-> next,
                  ret |-> IF s < Len(outputs) THEN Ok(outputs[s + 1])
                          ELSE Err(NoOutput)]

\* a Moore step that takes the last matching transition entry
MooreStepOnLastMatch(outs, s, i) ==
    LET t == FindLast(transitions, s, i, 1)
    IN  IF t = 0 THEN [state |-> s, ret |-> Err(NoTransition)]
        ELSE LET next == transitions[t][3]
             IN  [state |-> next,
                  ret |-> IF next < Len(outs) THEN Ok(outs[next + 1])
                          ELSE Err(NoOutput)]

\* Moore::step of a machine with output array outs, on state s and input i:
\* the state it leaves and what it returns
MooreStepOn(outs, s, i) ==
    LET t == Find(transitions, s, i, 1)
    IN  IF t = 0 THEN [state |-> s, ret |-> Err(NoTransition)]
        ELSE LET next == transitions[t][3]
             IN  [state |-> next,
                  ret |-> IF next < Len(outs) THEN Ok(outs[next + 1])
                          ELSE Err(NoOutput)]

\* Moore::step of the machine itself
MooreStepOutcome(s, i) == MooreStepOn(outputs, s, i)

\* an output lookup that indexes the array from 1
MooreOutputOfOneBased(s) ==
    IF s >= 1 /\ s <= Len(outputs) THEN Ok(outputs[s]) ELSE Err(NoOutput)

\* an output lookup that clamps the index to the last element of the array
MooreOutputOfClamped(s) ==
    IF Len(outputs) = 0 THEN Err(NoOutput)
    ELSE IF s < Len(outputs) THEN Ok(outputs[s + 1])
    ELSE Ok(outputs[Len(outputs)])

\* an output lookup that indexes the array directly: beyond its end the call
\* panics instead of returning
MooreOutputOfUnchecked(s) ==
    IF s < Len(outputs) THEN Ok(outputs[s + 1])
    ELSE [tag |-> "Panic", val |-> "index out of bounds"]

\* Moore::current_output on state s
MooreOutputOf(s) ==
    IF s < Len(outputs) THEN Ok(outputs[s + 1]) ELSE Err(NoOutput)

MooreNew ==
    /\ kind = "Moore"
    /\ transitions \in TransitionTables
    /\ outputs \in MooreOutputArrays
    /\ state \in StateArgs
    /\ op = "new"
    /\ arg = state
    /\ pre = state
    /\ ret = Unit

MooreStep(i) ==
    /\ kind = "Moore"
    /\ LET r == MooreStepOutcome(state, i)
       IN  /\ state' = r.state
           /\ ret' = r.ret
    /\ op' = "step"
    /\ arg' = i
    /\ pre' = state
    /\ UNCHANGED <<peer, kind, transitions, outputs>>

MooreCurrentState ==
    /\ kind = "Moore"
    /\ ret' = StateVal(state)
    /\ op' = "current_state"
    /\ arg' = "none"
    /\ pre' = state
    /\ UNCHANGED <<peer, kind, transitions, outputs, state>>

\* a current_output that falls back to state 0 when the state has no output
MooreCurrentOutputRecovering ==
    /\ kind = "Moore"
    /\ ret' = MooreOutputOf(state)
    /\ op' = "current_output"
    /\ arg' = "none"
    /\ pre' = state
    /\ state' = IF state < Len(outputs) THEN state ELSE 0
    /\ UNCHANGED <<peer, kind, transitions, outputs>>

MooreCurrentOutput ==
    /\ kind = "Moore"
    /\ ret' = MooreOutputOf(state)
    /\ op' = "current_output"
    /\ arg' = "none"
    /\ pre' = state
    /\ UNCHANGED <<peer, kind, transitions, outputs, state>>

\* a reset that ignores a state the output array does not cover
MooreResetChecked(s) ==
    /\ kind = "Moore"
    /\ state' = IF s < Len(outputs) THEN s ELSE state
    /\ ret' = Unit
    /\ op' = "reset"
    /\ arg' = s
    /\ pre' = state
    /\ UNCHANGED <<peer, kind, transitions, outputs>>

MooreReset(s) ==
    /\ kind = "Moore"
    /\ state' = s
    /\ ret' = Unit
    /\ op' = "reset"
    /\ arg' = s
    /\ pre' = state
    /\ UNCHANGED <<peer, kind, transitions, outputs>>

(* ---------------------------- specification ---------------------------- *)

Init == (MealyNew \/ MooreNew) /\ peer = NoPeer

Next ==
    \/ \E i \in Inputs : MealyStep(i)
    \/ MealyCurrentState
    \/ \E s \in StateArgs : MealyReset(s)
    \/ \E i \in Inputs : MooreStep(i)
    \/ MooreCurrentState
    \/ MooreCurrentOutput
    \/ \E s \in StateArgs : MooreReset(s)

Spec == Init /\ [][Next]_vars

(* ---------------------------- table predicates ------------------------ *)

\* entry k of table has the key (s, i)
Matches(table, k, s, i) == table[k][1] = s /\ table[k][2] = i

\* some entry of table has the key (s, i)
HasMatch(table, s, i) == \E k \in 1..Len(table) : Matches(table, k, s, i)

\* entry k is the earliest entry of table with the key (s, i)
IsFirstMatch(table, k, s, i) ==
    /\ Matches(table, k, s, i)
    /\ \A j \in 1..(k - 1) : ~Matches(table, j, s, i)

\* the tables of the documented Mealy and Moore scenarios
ScenarioTransitions == <<<<0, "A", 1>>, <<1, "B", 0>>>>
ScenarioMealyOutputs == <<<<0, "A", "X">>, <<1, "B", "Y">>>>
ScenarioMooreOutputs == <<"X", "Y">>

(* ---------------------------- claims ----------------------------------- *)

\* C1: in both engines, a step that returns Err(NoTransition) leaves the
\* current state equal to the state before the call.
C1_NoTransitionKeepsState ==
    (op = "step" /\ ret = Err(NoTransition)) => state = pre

\* a step on input A fails with NoTransition in a state that has a transition
\* on input B
C1_Witness ==
    /\ op = "step"
    /\ arg = "A"
    /\ ret = Err(NoTransition)
    /\ HasMatch(transitions, pre, "B")
    /\ pre # 0
    /\ state = pre

\* C2: a Mealy step whose transition lookup matches and whose output lookup
\* does not returns Err(NoOutput) and leaves the state unchanged; the state
\* changes only when both tables have an entry for (state before, input).
C2_MealyStepAtomic ==
    (kind = "Mealy" /\ op = "step") =>
        /\ (HasMatch(transitions, pre, arg) /\ ~HasMatch(outputs, pre, arg))
              => (ret = Err(NoOutput) /\ state = pre)
        /\ state # pre
              => (HasMatch(transitions, pre, arg) /\ HasMatch(outputs, pre, arg))

\* a Mealy step found a transition to another state, found no output, and
\* stayed where it was
C2_Witness ==
    /\ kind = "Mealy"
    /\ op = "step"
    /\ \E k \in 1..Len(transitions) :
          /\ IsFirstMatch(transitions, k, pre, arg)
          /\ transitions[k][3] # pre
    /\ ~HasMatch(outputs, pre, arg)
    /\ Len(outputs) > 0
    /\ ret = Err(NoOutput)
    /\ state = pre

\* C3: a Moore step whose first matching transition entry leads to a state
\* that is no index of the output array returns Err(NoOutput) and leaves the
\* current state equal to that to_state.
C3_MoorePartialCommit ==
    (kind = "Moore" /\ op = "step") =>
        \A k \in 1..Len(transitions) :
            (IsFirstMatch(transitions, k, pre, arg) /\ transitions[k][3] >= Len(outputs))
               => (ret = Err(NoOutput) /\ state = transitions[k][3])

\* a Moore step left a state that has an output for a state that has none
C3_Witness ==
    /\ kind = "Moore"
    /\ op = "step"
    /\ pre < Len(outputs)
    /\ \E k \in 1..Len(transitions) :
          /\ IsFirstMatch(transitions, k, pre, arg)
          /\ transitions[k][3] >= Len(outputs)
          /\ transitions[k][3] # pre
          /\ state = transitions[k][3]
    /\ ret = Err(NoOutput)

\* C4 as stated: the current state differs from the state before the last
\* call only when that call was a step that returned Ok or a reset.
C4_StateChangesOnlyOnOkOrReset ==
    state # pre => ((op = "step" /\ ret.tag = "Ok") \/ op = "reset")

\* C4 as amended: the current state differs from the state before the last
\* call only when that call was a step that returned Ok, a reset, or a Moore
\* step that returned Err(NoOutput); no accessor, no step returning
\* Err(NoTransition) and no failed Mealy step changes it.
C4_StateChangesOnlyOnOkResetOrMooreNoOutput ==
    state # pre =>
        \/ (op = "step" /\ ret.tag = "Ok")
        \/ op = "reset"
        \/ (kind = "Moore" /\ op = "step" /\ ret = Err(NoOutput))

\* a Mealy step failed with NoTransition in a state other than 0 that the
\* table can leave on the other input
C4_Witness ==
    /\ kind = "Mealy"
    /\ op = "step"
    /\ arg = "B"
    /\ ret = Err(NoTransition)
    /\ HasMatch(transitions, pre, "A")
    /\ pre = 1
    /\ state = pre

\* C5: in both engines, a current_state() call made right after reset(s)
\* returns s, whatever the tables and the state before the reset.
C5_ResetThenCurrentState ==
    [][(op = "reset" /\ op' = "current_state") => ret' = StateVal(arg)]_vars

\* reset moved a Moore machine to the value that is in no table and beyond
\* the output array
C5_Witness ==
    /\ kind = "Moore"
    /\ op = "reset"
    /\ arg = U8Max
    /\ pre # U8Max
    /\ Len(transitions) > 0
    /\ state = U8Max

\* C6: in both engines, a step from a state and input that the transition
\* table has entries for moves to the to_state of the earliest such entry
\* (or, in a Mealy step that returns Err(NoOutput), does not move); a later
\* entry with the same key is never the one used.
C6_FirstMatchWins ==
    op = "step" =>
        \A k \in 1..Len(transitions) :
            IsFirstMatch(transitions, k, pre, arg) =>
                \/ state = transitions[k][3]
                \/ (kind = "Mealy" /\ ret = Err(NoOutput) /\ state = pre)

\* a step used the first of two entries with the same key and different
\* to_state values
C6_Witness ==
    /\ op = "step"
    /\ Len(transitions) = 2
    /\ Matches(transitions, 1, pre, arg)
    /\ Matches(transitions, 2, pre, arg)
    /\ transitions[1][3] # transitions[2][3]
    /\ transitions[1][3] # pre
    /\ state = transitions[1][3]

\* C7: a Mealy step that returns Ok returns the output of the earliest
\* output-table entry keyed on (state before, input) and moves to the
\* to_state of the earliest matching transition entry; on the documented
\* tables, step(A) from 0 gives Ok(X) and state 1, and step(B) from 1 gives
\* Ok(Y) and state 0.
C7_MealyStepOutput ==
    (kind = "Mealy" /\ op = "step") =>
        /\ ret.tag = "Ok" =>
              /\ \E k \in 1..Len(outputs) :
                    /\ IsFirstMatch(outputs, k, pre, arg)
                    /\ ret.val = outputs[k][3]
              /\ \E t \in 1..Len(transitions) :
                    /\ IsFirstMatch(transitions, t, pre, arg)
                    /\ state = transitions[t][3]
        /\ (transitions = ScenarioTransitions /\ outputs = ScenarioMealyOutputs) =>
              /\ (pre = 0 /\ arg = "A") => (ret = Ok("X") /\ state = 1)
              /\ (pre = 1 /\ arg = "B") => (ret = Ok("Y") /\ state = 0)

\* a Mealy step returned the output keyed on the state it left, where the
\* state it arrived in has a different output for the same input
C7_Witness ==
    /\ kind = "Mealy"
    /\ op = "step"
    /\ state # pre
    /\ \E k, d \in 1..Len(outputs) :
          /\ Matches(outputs, k, pre, arg)
          /\ Matches(outputs, d, state, arg)
          /\ outputs[k][3] # outputs[d][3]
          /\ ret = Ok(outputs[k][3])

\* the output part of C8: a Moore step that returns Ok returns the element
\* of the output array at the index of the state it arrived in
MooreStepReturnsDestinationOutput ==
    (kind = "Moore" /\ op = "step") =>
        /\ ret.tag = "Ok" => (state < Len(outputs) /\ ret = Ok(outputs[state + 1]))
        /\ (transitions = ScenarioTransitions /\ outputs = ScenarioMooreOutputs
              /\ pre = 0 /\ arg = "A") => (ret = Ok("Y") /\ state = 1)

\* C8: a Moore step that returns Ok returns the output-array element of the
\* destination state, and a current_output() call made right after a step
\* that returned Ok(o) returns Ok(o).
C8_MooreStepOutput ==
    /\ []MooreStepReturnsDestinationOutput
    /\ [][(kind = "Moore" /\ op = "step" /\ ret.tag = "Ok" /\ op' = "current_output")
             => ret' = ret]_vars

\* a Moore step returned the output of the state it arrived in, which differs
\* from the output of the state it left
C8_Witness ==
    /\ kind = "Moore"
    /\ op = "step"
    /\ ret.tag = "Ok"
    /\ pre < Len(outputs)
    /\ state # pre
    /\ outputs[pre + 1] # outputs[state + 1]
    /\ ret.val = outputs[state + 1]

\* C9: a current_output() call never changes the current state, and one made
\* right after another returns the same result.
C9_CurrentOutputIdempotent ==
    [][op' = "current_output" =>
          /\ state' = state
          /\ op = "current_output" => ret' = ret]_vars

\* current_output reported NoOutput on a machine whose output array is not
\* empty, and left the state alone
C9_Witness ==
    /\ op = "current_output"
    /\ ret = Err(NoOutput)
    /\ Len(outputs) > 0
    /\ state = pre

\* the result part of C10: current_output returns the array element at the
\* current state when the state is an index of the array and NoOutput when
\* it is not
CurrentOutputIndexesArray ==
    op = "current_output" =>
        /\ state < Len(outputs) => ret = Ok(outputs[state + 1])
        /\ state >= Len(outputs) => ret = Err(NoOutput)
        /\ ret.tag = "Ok" <=> state < Len(outputs)

\* C10: current_output() returns Ok(outputs[current_state]) exactly when the
\* current state is less than the length of the output array and
\* Err(NoOutput) exactly when it is not; on a machine that has just been
\* constructed it returns the output of the initial state.
C10_CurrentOutputResult ==
    /\ []CurrentOutputIndexesArray
    /\ [][(op = "new" /\ op' = "current_output" /\ state < Len(outputs))
             => ret' = Ok(outputs[state + 1])]_vars

\* current_output returned the second element of an array whose two elements
\* differ
C10_Witness ==
    /\ op = "current_output"
    /\ state = 1
    /\ Len(outputs) = 2
    /\ outputs[1] # outputs[2]
    /\ ret = Ok(outputs[2])

\* no entry of the transition table has s as its from_state
Dead(s) == \A k \in 1..Len(transitions) : transitions[k][1] # s

\* C11: in both engines, a call other than reset made in a state that no
\* transition entry has as from_state leaves the state where it is, and when
\* the call is a step it returns Err(NoTransition), for every input; the
\* state therefore stays dead until a reset.
C11_DeadStateStaysDead ==
    (op \in {"step", "current_state", "current_output"} /\ Dead(pre)) =>
        /\ state = pre
        /\ Dead(state)
        /\ op = "step" => ret = Err(NoTransition)

\* a step failed in a dead state that the table leads into, on an input that
\* the table has an entry for
C11_Witness ==
    /\ op = "step"
    /\ Dead(pre)
    /\ \E k \in 1..Len(transitions) : transitions[k][3] = pre
    /\ \E k \in 1..Len(transitions) : transitions[k][2] = arg
    /\ ret = Err(NoTransition)
    /\ state = pre

\* what a step may return
StepResults == {Ok(o) : o \in Outputs} \cup {Err(NoTransition), Err(NoOutput)}

\* what current_output may return
CurrentOutputResults == {Ok(o) : o \in Outputs} \cup {Err(NoOutput)}

\* C12: in every reachable state, including states set by reset that are in
\* no table or beyond the Moore output array, and for all table contents, a
\* step returns Ok(output), Err(NoTransition) or Err(NoOutput) and
\* current_output returns Ok(output) or Err(NoOutput); no call ends in
\* anything else.
C12_OperationsTotal ==
    /\ op = "step" => ret \in StepResults
    /\ op = "current_output" => ret \in CurrentOutputResults

\* current_output returned Err(NoOutput) in the state 255 that a reset set,
\* on a machine whose tables are not empty
C12_Witness ==
    /\ kind = "Moore"
    /\ op = "current_output"
    /\ state = U8Max
    /\ Len(transitions) > 0
    /\ Len(outputs) > 0
    /\ ret = Err(NoOutput)

\* C13: in both engines a step from a state and input that no transition
\* entry matches returns Err(NoTransition), whether or not an output exists
\* for them, and a step returns Err(NoOutput) only when some transition entry
\* matches (state before the step, input).
C13_TransitionLookupFirst ==
    op = "step" =>
        /\ ~HasMatch(transitions, pre, arg) => ret = Err(NoTransition)
        /\ ret = Err(NoOutput) => HasMatch(transitions, pre, arg)

\* a Mealy step found neither a transition nor an output for its state and
\* input, in tables that have entries for the other input, and reported
\* NoTransition
C13_Witness ==
    /\ kind = "Mealy"
    /\ op = "step"
    /\ arg = "B"
    /\ ~HasMatch(transitions, pre, arg)
    /\ ~HasMatch(outputs, pre, arg)
    /\ HasMatch(transitions, pre, "A")
    /\ HasMatch(outputs, pre, "A")
    /\ ret = Err(NoTransition)

\* C15: right after a Moore step that returned Err(NoOutput) the current
\* state is the to_state of the entry the step resolved, which is no index of
\* the output array; a current_output() call made then returns Err(NoOutput),
\* and a step made then starts from that state: it moves to the to_state of
\* the first entry matching (that state, input), or returns
\* Err(NoTransition) and stays when there is none.
C15_AfterMooreNoOutput ==
    [][(kind = "Moore" /\ op = "step" /\ ret = Err(NoOutput)) =>
          /\ state >= Len(outputs)
          /\ \A k \in 1..Len(transitions) :
                IsFirstMatch(transitions, k, pre, arg) => state = transitions[k][3]
          /\ op' = "current_output" => ret' = Err(NoOutput)
          /\ op' = "step" =>
                /\ pre' = state
                /\ \A k \in 1..Len(transitions) :
                      IsFirstMatch(transitions, k, state, arg') => state' = transitions[k][3]
                /\ ~HasMatch(transitions, state, arg') =>
                      (ret' = Err(NoTransition) /\ state' = state)]_vars

\* a Moore step failed with NoOutput and left the machine in another state,
\* from which the same input leads on to a state other than that one
C15_Witness ==
    /\ kind = "Moore"
    /\ op = "step"
    /\ ret = Err(NoOutput)
    /\ state # pre
    /\ Len(outputs) > 0
    /\ \E k \in 1..Len(transitions) :
          /\ IsFirstMatch(transitions, k, state, arg)
          /\ transitions[k][3] # state

\* the to_state values of the transition table
ToStates == {transitions[k][3] : k \in 1..Len(transitions)}

\* C16: in both engines every call leaves the current state where it was,
\* or is a step that moves it to the to_state of some table entry, or is a
\* reset that sets it to its argument; so from the initial state, an
\* execution without reset only visits the initial state and to_state values,
\* and one with reset also the values passed to reset.
C16_StateClosure ==
    \/ state = pre
    \/ (op = "step" /\ state \in ToStates)
    \/ (op = "reset" /\ state = arg)

\* a step moved the machine from a state that is no to_state to one that is
C16_Witness ==
    /\ op = "step"
    /\ state # pre
    /\ state \in ToStates
    /\ pre \notin ToStates

(* ---------------------------- two instances --------------------------- *)

\* In PairSpec the machine of Spec and a second instance of the same type are
\* built over the same tables: the second instance borrows transitions and
\* outputs too, and peer holds its state field and the result of its last
\* call.  The calls on the two instances interleave in any order.

\* the output table has at most MaxPairOuts entries, all with the output X
SmallOutputs ==
    /\ Len(outputs) <= MaxPairOuts
    /\ \A k \in 1..Len(outputs) :
          IF kind = "Mealy" THEN outputs[k][3] = "X" ELSE outputs[k] = "X"

PairInit ==
    /\ MealyNew \/ MooreNew
    /\ SmallOutputs
    /\ peer \in [state : StateArgs, ret : {Unit}]

\* a reset of the second instance that writes the state of both instances
PeerMooreResetShared(s) ==
    /\ kind = "Moore"
    /\ peer' = [state |-> s, ret |-> Unit]
    /\ state' = s
    /\ UNCHANGED <<kind, transitions, outputs, op, arg, pre, ret>>

PeerMealyStep(i) ==
    /\ kind = "Mealy"
    /\ LET r == MealyStepOutcome(peer.state, i)
       IN  peer' = [state |-> r.state, ret |-> r.ret]
    /\ UNCHANGED <<kind, transitions, outputs, state, op, arg, pre, ret>>

PeerMealyReset(s) ==
    /\ kind = "Mealy"
    /\ peer' = [state |-> s, ret |-> Unit]
    /\ UNCHANGED <<kind, transitions, outputs, state, op, arg, pre, ret>>

PeerMooreStep(i) ==
    /\ kind = "Moore"
    /\ LET r == MooreStepOutcome(peer.state, i)
       IN  peer' = [state |-> r.state, ret |-> r.ret]
    /\ UNCHANGED <<kind, transitions, outputs, state, op, arg, pre, ret>>

PeerMooreReset(s) ==
    /\ kind = "Moore"
    /\ peer' = [state |-> s, ret |-> Unit]
    /\ UNCHANGED <<kind, transitions, outputs, state, op, arg, pre, ret>>

PairNext ==
    \/ \E i \in Inputs : MealyStep(i)
    \/ \E s \in StateArgs : MealyReset(s)
    \/ \E i \in Inputs : MooreStep(i)
    \/ \E s \in StateArgs : MooreReset(s)
    \/ \E i \in Inputs : PeerMealyStep(i)
    \/ \E s \in StateArgs : PeerMealyReset(s)
    \/ \E i \in Inputs : PeerMooreStep(i)
    \/ \E s \in StateArgs : PeerMooreReset(s)

PairSpec == PairInit /\ [][PairNext]_vars

\* C14: with two instances over the same tables, under any interleaving of
\* step and reset calls, no call changes the tables, and no call changes the
\* state or last result of both instances: a call that changes one
\* instance leaves the state and the last result of the other as they were.
C14_InstancesIndependent ==
    [][/\ UNCHANGED <<kind, transitions, outputs>>
       /\ peer' = peer \/ UNCHANGED <<state, op, arg, pre, ret>>]_vars

\* both instances have stepped on the shared tables, one with success and one
\* without, and are in different states
C14_Witness ==
    /\ op = "step"
    /\ ret.tag = "Err"
    /\ peer.ret.tag = "Ok"
    /\ peer.state # state
    /\ Len(transitions) = 2

(* ---------------------------- Mealy and Moore in lockstep ------------- *)

\* In LockstepSpec the machine of Spec is a Mealy machine and peer is a Moore
\* machine built over the same transition table with the same initial state
\* and an output array of its own.  Every step feeds one input to both.
\* peer holds the Moore machine's array, state, state before the last step
\* and last result, and whether either machine has returned Err(NoOutput) so
\* far.  The output values do not influence states or error kinds, so every
\* table entry has the output X.

LockstepMooreArrays == {a \in MooreOutputArrays : \A k \in 1..Len(a) : a[k] = "X"}

LockstepInit ==
    /\ MealyNew
    /\ \A k \in 1..Len(outputs) : outputs[k][3] = "X"
    /\ peer \in [outputs : LockstepMooreArrays, state : {state}, pre : {state},
                 ret : {Unit}, sawNoOutput : {FALSE}]

LockStep(i) ==
    /\ kind = "Mealy"
    /\ LET m == MealyStepOutcome(state, i)
           r == MooreStepOn(peer.outputs, peer.state, i)
       IN  /\ state' = m.state
           /\ ret' = m.ret
           /\ peer' = [outputs |-> peer.outputs,
                       state |-> r.state,
                       pre |-> peer.state,
                       ret |-> r.ret,
                       sawNoOutput |-> \/ peer.sawNoOutput
                                       \/ m.ret = Err(NoOutput)
                                       \/ r.ret = Err(NoOutput)]
    /\ op' = "step"
    /\ arg' = i
    /\ pre' = state
    /\ UNCHANGED <<kind, transitions, outputs>>

LockstepNext == \E i \in Inputs : LockStep(i)

LockstepSpec == LockstepInit /\ [][LockstepNext]_vars

\* C17 as stated: the two machines are in equal states as long as neither
\* has returned Err(NoOutput), they return Err(NoTransition) on exactly the
\* same steps, and their states come to differ only at a step where one of
\* them returns Err(NoOutput).
C17_SameTrajectory ==
    /\ ~peer.sawNoOutput => state = peer.state
    /\ op = "step" =>
          /\ ret = Err(NoTransition) <=> peer.ret = Err(NoTransition)
          /\ (pre = peer.pre /\ state # peer.state) =>
                (ret = Err(NoOutput) \/ peer.ret = Err(NoOutput))

\* C17 as amended: the two machines are in equal states as long as neither
\* has returned Err(NoOutput); on every step that they start in equal states
\* either both return Err(NoTransition) or neither does; and their states
\* come to differ only at a step where one of them returns Err(NoOutput).
C17_SameTrajectoryWhileEqual ==
    /\ ~peer.sawNoOutput => state = peer.state
    /\ (op = "step" /\ pre = peer.pre) =>
          /\ ret = Err(NoTransition) <=> peer.ret = Err(NoTransition)
          /\ state # peer.state =>
                (ret = Err(NoOutput) \/ peer.ret = Err(NoOutput))

\* both machines took the first of two entries with the same key and
\* different to_state values, returned Ok and arrived in the same new state
C17_Witness ==
    /\ op = "step"
    /\ ~peer.sawNoOutput
    /\ ret.tag = "Ok"
    /\ peer.ret.tag = "Ok"
    /\ Len(transitions) = 2
    /\ Matches(transitions, 1, pre, arg)
    /\ Matches(transitions, 2, pre, arg)
    /\ transitions[1][3] # transitions[2][3]
    /\ state # pre
    /\ state = peer.state

====
